---------------------------- MODULE Spec2Model ----------------------------
(***************************************************************************)
(* Model of src/Youtubelist_cli.ts: the playlist identifier extractor,     *)
(* the paged fetcher, the tool-call handler of the MCP server and the CLI   *)
(* runner.                                                                  *)
(*                                                                          *)
(* JavaScript strings that the code inspects character by character (the    *)
(* --url / playlist_url input) are sequences of one-character strings.      *)
(* Opaque strings (API keys, continuation tokens, messages) are TLA+        *)
(* strings.                                                                 *)
(***************************************************************************)
EXTENDS Integers, Sequences, FiniteSets, TLC

\* ------------------------------------------------------------------------
\* Bounds of the model
\* ------------------------------------------------------------------------
MaxPieces == 4
MaxPages == 3
MaxItems == 1
MaxSessions == 3
MaxPosts == 2

\* ------------------------------------------------------------------------
\* JavaScript values
\* ------------------------------------------------------------------------
\* null, as the value of a character-sequence expression (no character is
\* the four-letter string, so it differs from every string value).
Null == <<"null">>
\* undefined, as the value of a character-sequence expression.
Undefined == <<"undefined">>
\* undefined, as the value of an opaque-string expression.
Undef == "undefined"

\* JavaScript truthiness of an opaque string: undefined and "" are falsy.
Truthy(v) == v # Undef /\ v # ""

\* JavaScript truthiness of a character-sequence value.
TruthyStr(s) == s # Undefined /\ s # Null /\ s # <<>>

\* ------------------------------------------------------------------------
\* Character helpers
\* ------------------------------------------------------------------------
\* The character class [a-zA-Z0-9_-] of both patterns.
IdChars ==
  { "a","b","c","d","e","f","g","h","i","j","k","l","m",
    "n","o","p","q","r","s","t","u","v","w","x","y","z",
    "A","B","C","D","E","F","G","H","I","J","K","L","M",
    "N","O","P","Q","R","S","T","U","V","W","X","Y","Z",
    "0","1","2","3","4","5","6","7","8","9","_","-" }

Min(S) == CHOOSE x \in S : \A y \in S : x <= y

\* lit occurs in s at position p.
MatchAt(s, p, lit) ==
  /\ p >= 1
  /\ p + Len(lit) - 1 <= Len(s)
  /\ \A i \in 1..Len(lit) : s[p + i - 1] = lit[i]

\* String.prototype.includes
Includes(s, lit) == \E p \in 1..Len(s) : MatchAt(s, p, lit)

\* Last position of the maximal run of class characters that starts at p
\* (the greedy quantifier +).
RECURSIVE RunEnd(_, _)
RunEnd(s, p) ==
  IF p + 1 <= Len(s) /\ s[p + 1] \in IdChars THEN RunEnd(s, p + 1) ELSE p

\* url.match(/<lit>([a-zA-Z0-9_-]+)/): the capture group of the leftmost
\* match, or Null when the pattern matches nowhere.
RegexCapture(s, lit) ==
  LET starts == { p \in 1..Len(s) :
                    /\ MatchAt(s, p, lit)
                    /\ p + Len(lit) <= Len(s)
                    /\ s[p + Len(lit)] \in IdChars }
  IN IF starts = {} THEN Null
     ELSE LET b == Min(starts) + Len(lit)
          IN SubSeq(s, b, RunEnd(s, b))

ListEq == <<"l","i","s","t","=">>
PlaylistListEq == <<"p","l","a","y","l","i","s","t","?","l","i","s","t","=">>
Http == <<"h","t","t","p">>

\* The two patterns, in the order the code tries them.
patterns == << ListEq, PlaylistListEq >>

\* The length threshold of the raw-identifier fallback.
MinRawIdLen == 10

\* The for loop over the patterns: the first capture that matches.
RECURSIVE FirstCapture(_, _)
FirstCapture(url, k) ==
  IF k > Len(patterns) THEN Null
  ELSE LET m == RegexCapture(url, patterns[k])
       IN IF m # Null THEN m ELSE FirstCapture(url, k + 1)

\* The raw-identifier fallback with >= in place of >.
extractPlaylistId_ge(url) ==
  LET m == FirstCapture(url, 1)
  IN IF m # Null THEN m
     ELSE IF Len(url) >= MinRawIdLen /\ ~Includes(url, Http) THEN url
     ELSE Null

\* The raw-identifier fallback with the threshold one too high.
extractPlaylistId_gt11(url) ==
  LET m == FirstCapture(url, 1)
  IN IF m # Null THEN m
     ELSE IF Len(url) > MinRawIdLen + 1 /\ ~Includes(url, Http) THEN url
     ELSE Null

\* YouTubeExtractor.extractPlaylistId
extractPlaylistId(url) ==
  LET m == FirstCapture(url, 1)
  IN IF m # Null THEN m
     ELSE IF Len(url) > MinRawIdLen /\ ~Includes(url, Http) THEN url
     ELSE Null

\* ------------------------------------------------------------------------
\* Inputs of the extractor: concatenations of at most MaxPieces pieces
\* ------------------------------------------------------------------------
Pieces ==
  { <<"h","t","t","p">>,
    <<"s",":","/","/","y",".","t">>,
    <<"/","p","l","a","y","l","i","s","t">>,
    <<"/","l","i","s","t","=">>,
    <<"?","l","i","s","t","=">>,
    <<"&","l","i","s","t","=">>,
    <<"l","i","s","t","=">>,
    <<"P","L","1">>,
    <<"a","_","-","Z","9">>,
    <<"a","b","c","d","e","f","g">>,
    <<"&","v","=","x">>,
    <<"#","t">> }

RECURSIVE Concats(_, _)
Concats(P, n) ==
  IF n = 0 THEN { <<>> }
  ELSE LET shorter == Concats(P, n - 1)
       IN shorter \cup { s \o p : s \in shorter, p \in P }

ExtractInputs == Concats(Pieces, MaxPieces)

VARIABLES
  input,        \* the string handed to extractPlaylistId
  extracted,    \* its result, or NotYet before the call
  calls,        \* per getPlaylistVideos invocation: its locals and outcome
  inflight,     \* playlistItems.list requests awaiting their response
  logFile,      \* the lines appended to cli_tool.log, in order
  console,      \* the lines printed by console.log and console.error
  logWritable,  \* whether fs.appendFileSync on the log file succeeds
  opts,         \* the parsed command line (program.opts())
  env,          \* process.env.YOUTUBE_API_KEY
  configFile,   \* cli_config.json on disk
  cfgWritable,  \* whether fs.writeFileSync on the config file succeeds
  outWritable,  \* whether fs.writeFileSync on the output file succeeds
  written,      \* the output files written, in order
  cli,          \* the CLI process: where main() is and how it ended
  tool,         \* per tool-call request of the MCP server: its progress
  transport,    \* the transport handle of setupRoutes: a session, or 0
  sessions,     \* the SSE sessions made by GET /sse, in order
  posts,        \* the POST /messages requests handled, in order
  writers       \* per process that runs saveConfig: where it is, what it read

NotYet == <<"not-yet">>

extractVars == << input, extracted >>
fetchVars == << calls, inflight, logFile, console, logWritable >>
cliVars == << opts, env, configFile, cfgWritable, outWritable, written, cli >>
toolVars == << tool >>
routeVars == << transport, sessions, posts >>
saveVars == << writers >>
sideVars == << routeVars, saveVars >>

vars == << extractVars, fetchVars, cliVars, toolVars, sideVars >>

\* ------------------------------------------------------------------------
\* AppLogger
\* ------------------------------------------------------------------------
\* The error fs.appendFileSync raises when the log file cannot be appended.
LogWriteError == "EACCES: cli_tool.log"

\* AppLogger.log: the line appended to the log file (timestamp left out).
LogLine(level, message) == [level |-> level, message |-> message]

\* AppLogger.log on an output state out = [console, logFile, threw]: the
\* line is printed, then appended to the log file; the append throws when
\* the file is not writable. Nothing runs after a throw.
Log(out, level, message, writable) ==
  IF out.threw THEN out
  ELSE [ console |-> Append(out.console, LogLine(level, message)),
         logFile |-> IF writable
                       THEN Append(out.logFile, LogLine(level, message))
                       ELSE out.logFile,
         threw |-> ~writable ]

\* ------------------------------------------------------------------------
\* The YouTube API, as seen by the fetcher
\* ------------------------------------------------------------------------
\* maxResults of every playlistItems.list request.
maxResults == 50

Tokens == { "T1", "T2" }

ItemKinds == { "video", "noSnippet", "noVideoId" }

\* The items of page pageNo whose kinds are given by shape; the video id of
\* an item is its position in the playlist.
MakeItems(shape, pageNo) ==
  [ i \in 1..Len(shape) |->
      IF shape[i] = "video"
        THEN [ snippet |-> TRUE, title |-> "Title", videoId |-> << pageNo, i >>,
               publishedAt |-> "2020-01-01T00:00:00Z" ]
      ELSE IF shape[i] = "noVideoId"
        THEN [ snippet |-> TRUE, title |-> Undef, videoId |-> Undefined,
               publishedAt |-> Undef ]
        ELSE [ snippet |-> FALSE, title |-> Undef, videoId |-> Undefined,
               publishedAt |-> Undef ] ]

RECURSIVE SeqsUpTo(_, _)
SeqsUpTo(S, n) ==
  IF n = 0 THEN { <<>> }
  ELSE LET shorter == SeqsUpTo(S, n - 1)
       IN shorter \cup { Append(s, x) : s \in shorter, x \in S }

\* A full page and the short last page of the two-page scenario.
FullShape == [ i \in 1..maxResults |-> "video" ]
ThreeShape == << "video", "video", "video" >>

\* A page on which items without snippet or video id lie between videos.
MixedShape == << "video", "noSnippet", "video", "noVideoId", "video" >>

\* A response whose data.items is present.
OkResponse(items, token) ==
  [ kind |-> "ok", hasItems |-> TRUE, items |-> items, nextPageToken |-> token ]

\* A response whose data.items is undefined.
NoItemsResponse(token) ==
  [ kind |-> "ok", hasItems |-> FALSE, items |-> <<>>, nextPageToken |-> token ]

ErrorResponse(message) ==
  [ kind |-> "error", message |-> message ]

ApiErrors == { "quotaExceeded" }

\* What the API may answer to the request for page pageNo.
Responses(pageNo) ==
  { OkResponse(MakeItems(shape, pageNo), token) :
      shape \in SeqsUpTo(ItemKinds, MaxItems), token \in Tokens \cup { Undef, "" } }
  \cup { NoItemsResponse(token) : token \in { Undef, "T1" } }
  \cup { OkResponse(MakeItems(FullShape, pageNo), "T1"),
         OkResponse(MakeItems(ThreeShape, pageNo), Undef) }
  \cup { OkResponse(MakeItems(MixedShape, pageNo), token) :
           token \in { Undef, "T2" } }
  \cup { ErrorResponse(m) : m \in ApiErrors }

\* ------------------------------------------------------------------------
\* YouTubeExtractor.getPlaylistVideos
\* ------------------------------------------------------------------------
\* The record pushed for an item that has a snippet and a video id.
VideoOf(item) ==
  [ title |-> IF Truthy(item.title) THEN item.title ELSE "Unknown",
    url |-> << "https://www.youtube.com/watch?v=", item.videoId >>,
    video_id |-> item.videoId,
    published_at |-> IF Truthy(item.publishedAt) THEN item.publishedAt ELSE "" ]

\* The item loop leaving at the first item without snippet or video id.
RECURSIVE PushItems_break(_, _, _)
PushItems_break(videos, items, i) ==
  IF i > Len(items) THEN videos
  ELSE IF ~items[i].snippet THEN videos
  ELSE IF TruthyStr(items[i].videoId)
    THEN PushItems_break(Append(videos, VideoOf(items[i])), items, i + 1)
    ELSE videos

\* The item loop putting each record in front of the earlier ones.
RECURSIVE PushItems_unshift(_, _, _)
PushItems_unshift(videos, items, i) ==
  IF i > Len(items) THEN videos
  ELSE IF ~items[i].snippet THEN PushItems_unshift(videos, items, i + 1)
  ELSE IF TruthyStr(items[i].videoId)
    THEN PushItems_unshift(<< VideoOf(items[i]) >> \o videos, items, i + 1)
    ELSE PushItems_unshift(videos, items, i + 1)

\* for (const item of items) { ... videos.push(...) }, from item i on.
RECURSIVE PushItems(_, _, _)
PushItems(videos, items, i) ==
  IF i > Len(items) THEN videos
  ELSE IF ~items[i].snippet THEN PushItems(videos, items, i + 1)
  ELSE IF TruthyStr(items[i].videoId)
    THEN PushItems(Append(videos, VideoOf(items[i])), items, i + 1)
    ELSE PushItems(videos, items, i + 1)

\* response.data.items || []
ItemsOf(resp) == IF resp.hasItems THEN resp.items ELSE <<>>

\* new Error(`YouTube API Error: ${e.message}`)
WrapApiError(message) == << "YouTube API Error: ", message >>

Pending == [ kind |-> "pending" ]
Returned(videos) == [ kind |-> "returned", videos |-> videos ]
Threw(error) == [ kind |-> "threw", error |-> error ]

\* A getPlaylistVideos invocation that has not been made yet.
IdleCall ==
  [ state |-> "Idle", playlistId |-> Null, videos |-> <<>>,
    nextPageToken |-> Undef, outcome |-> Pending,
    requests |-> <<>>, responses |-> <<>>, observed |-> <<>> ]

\* Entry of getPlaylistVideos up to the try: the locals and the first log
\* line, which is written outside the try.
BeginFetch(playlistId, writable) ==
  IF writable
    THEN [ IdleCall EXCEPT !.state = "Fetching", !.playlistId = playlistId ]
    ELSE [ IdleCall EXCEPT !.state = "Failed", !.playlistId = playlistId,
                           !.outcome = Threw(LogWriteError) ]

\* The request always carrying no page token.
RequestOf_noToken(f) ==
  [ part |-> << "snippet" >>, playlistId |-> f.playlistId,
    maxResults |-> maxResults, pageToken |-> Undef ]

\* The argument of playlistItems.list for the next turn of the loop.
RequestOf(f) ==
  [ part |-> << "snippet" >>, playlistId |-> f.playlistId,
    maxResults |-> maxResults, pageToken |-> f.nextPageToken ]

\* if (nextPageToken) AppLogger.info(...) without its condition.
LogsProgress_always(token) == TRUE

\* The condition of the progress line inverted.
LogsProgress_inverted(token) == ~Truthy(token)

\* if (nextPageToken): whether the progress line is logged after a page.
LogsProgress(token) == Truthy(token)

\* The catch block retrying the loop instead of throwing.
OnRequestError_retry(f, resp) ==
  [ f EXCEPT !.responses = Append(@, resp) ]

\* catch (e) { throw new Error(...) } for a rejected request.
OnRequestError(f, resp) ==
  [ f EXCEPT !.state = "Failed",
             !.outcome = Threw(WrapApiError(resp.message)),
             !.responses = Append(@, resp) ]

\* The number `${videos.length}` of the progress line.
ProgressCount(videos) == Len(videos)

\* The body of the do-while after the awaited response arrived, up to the
\* loop test, the return or the throw.
AfterResponse(f, resp, writable) ==
  IF resp.kind = "error" THEN OnRequestError(f, resp)
  ELSE
    LET videos == PushItems(f.videos, ItemsOf(resp), 1)
        token == IF Truthy(resp.nextPageToken) THEN resp.nextPageToken ELSE Undef
        g == [ f EXCEPT !.videos = videos, !.nextPageToken = token,
                        !.responses = Append(@, resp) ]
        logged == [ g EXCEPT !.observed =
                      Append(@, [ page |-> Len(g.responses),
                                  count |-> ProgressCount(videos) ]) ]
    IN IF LogsProgress(token) /\ ~writable
         THEN [ g EXCEPT !.state = "Failed",
                         !.outcome = Threw(WrapApiError(LogWriteError)) ]
       ELSE LET h == IF LogsProgress(token) THEN logged ELSE g
            IN IF Truthy(token) THEN h
               ELSE [ h EXCEPT !.state = "Exhausted",
                               !.outcome = Returned(videos) ]

\* The log lines the same step appends (with writable = TRUE: the lines it
\* prints).
LogAfterResponse(f, resp, writable) ==
  IF resp.kind = "error" THEN <<>>
  ELSE
    LET videos == PushItems(f.videos, ItemsOf(resp), 1)
        token == IF Truthy(resp.nextPageToken) THEN resp.nextPageToken ELSE Undef
    IN IF LogsProgress(token) /\ writable
         THEN << LogLine("INFO", << "progress", ProgressCount(videos) >>) >>
         ELSE <<>>

\* ------------------------------------------------------------------------
\* The front ends when neither runs
\* ------------------------------------------------------------------------
NoOpts ==
  [ url |-> Undefined, key |-> Undef, output |-> Undefined, format |-> "csv",
    saveKey |-> FALSE, server |-> FALSE ]

\* {} as ConfigData
EmptyConfig == [ api_key |-> Undef ]

NoConfigFile == [ exists |-> FALSE, parses |-> TRUE, data |-> EmptyConfig ]

NoCli ==
  [ pc |-> "none", exitCode |-> -1, fatal |-> FALSE, apiKey |-> Undef,
    playlistId |-> Null ]

\* let transport: no session was made, no POST handled.
NoRoutes ==
  /\ transport = 0
  /\ sessions = <<>>
  /\ posts = <<>>

\* No process runs saveConfig.
NoWriters == writers = <<>>

NoFrontEnd ==
  /\ opts = NoOpts
  /\ env = Undef
  /\ configFile = NoConfigFile
  /\ cfgWritable = TRUE
  /\ outWritable = TRUE
  /\ written = <<>>
  /\ cli = NoCli
  /\ tool = <<>>
  /\ NoRoutes
  /\ NoWriters

\* ------------------------------------------------------------------------
\* The fetcher on its own: one caller, one invocation
\* ------------------------------------------------------------------------
PlaylistIds == { <<"P","L","1">> }

InitFetch ==
  /\ input = <<>>
  /\ extracted = NotYet
  /\ calls = [ c \in { 1 } |-> IdleCall ]
  /\ inflight = <<>>
  /\ logFile = <<>>
  /\ console = <<>>
  /\ logWritable \in BOOLEAN
  /\ NoFrontEnd

\* The caller invokes getPlaylistVideos(playlistId) as invocation c.
CallFetch(c, playlistId) ==
  /\ calls[c].state = "Idle"
  /\ calls' = [ calls EXCEPT ![c] = BeginFetch(playlistId, logWritable) ]
  /\ logFile' = IF logWritable
                  THEN Append(logFile, LogLine("INFO", << "fetching", playlistId >>))
                  ELSE logFile
  /\ console' = Append(console, LogLine("INFO", << "fetching", playlistId >>))
  /\ UNCHANGED << inflight, logWritable >>

\* Invocation c reaches the await: the request of this turn goes out.
SendRequest(c) ==
  /\ calls[c].state = "Fetching"
  /\ Len(calls[c].requests) = Len(calls[c].responses)
  /\ Len(calls[c].requests) < MaxPages
  /\ inflight' = Append(inflight, [ call |-> c, request |-> RequestOf(calls[c]) ])
  /\ calls' = [ calls EXCEPT ![c].requests = Append(@, RequestOf(calls[c])) ]
  /\ UNCHANGED << logFile, console, logWritable >>

RemoveAt(s, k) == SubSeq(s, 1, k - 1) \o SubSeq(s, k + 1, Len(s))

\* The continuation token kept on the extractor, which the invocations
\* share: the token of an answer becomes the token of every running fetch.
Deliver_sharedToken(k, resp) ==
  LET c == inflight[k].call
      after == AfterResponse(calls[c], resp, logWritable)
  IN /\ calls' = [ d \in DOMAIN calls |->
                     IF d = c THEN after
                     ELSE IF calls[d].state = "Fetching"
                       THEN [ calls[d] EXCEPT !.nextPageToken = after.nextPageToken ]
                       ELSE calls[d] ]
     /\ logFile' = logFile \o LogAfterResponse(calls[c], resp, logWritable)
     /\ console' = console \o LogAfterResponse(calls[c], resp, TRUE)
     /\ inflight' = RemoveAt(inflight, k)
     /\ UNCHANGED logWritable

\* The API answers the k-th request in flight with resp and the awaiting
\* invocation runs on to its next await, return or throw.
Deliver(k, resp) ==
  LET c == inflight[k].call
  IN /\ calls' = [ calls EXCEPT ![c] = AfterResponse(calls[c], resp, logWritable) ]
     /\ logFile' = logFile \o LogAfterResponse(calls[c], resp, logWritable)
     /\ console' = console \o LogAfterResponse(calls[c], resp, TRUE)
     /\ inflight' = RemoveAt(inflight, k)
     /\ UNCHANGED logWritable

ApiRespond ==
  \E k \in 1..Len(inflight) :
    \E resp \in Responses(Len(calls[inflight[k].call].requests)) :
      Deliver(k, resp)

NextFetch ==
  \/ \E p \in PlaylistIds :
       CallFetch(1, p) /\ UNCHANGED << sideVars, extractVars, cliVars, toolVars >>
  \/ SendRequest(1) /\ UNCHANGED << sideVars, extractVars, cliVars, toolVars >>
  \/ ApiRespond /\ UNCHANGED << sideVars, extractVars, cliVars, toolVars >>

SpecFetch == InitFetch /\ [][NextFetch]_vars


\* ========================================================================
\* Properties of the paged fetcher (SpecFetch)
\* ========================================================================
\* An item that yields a record: it has a snippet and a video id.
IsValidItem(item) == item.snippet /\ TruthyStr(item.videoId)

ValidCount(resp) ==
  Cardinality({ i \in 1..Len(ItemsOf(resp)) : IsValidItem(ItemsOf(resp)[i]) })

\* The valid items of the first k responses.
RECURSIVE SumValid(_, _)
SumValid(responses, k) ==
  IF k = 0 THEN 0 ELSE SumValid(responses, k - 1) + ValidCount(responses[k])

CarriesToken(resp) == resp.kind = "ok" /\ Truthy(resp.nextPageToken)

\* N >= 1 pages were answered without failure, every page but the last
\* carrying a continuation token.
CompleteFetch(f) ==
  /\ Len(f.responses) >= 1
  /\ \A i \in 1..Len(f.responses) : f.responses[i].kind = "ok"
  /\ \A i \in 1..(Len(f.responses) - 1) : CarriesToken(f.responses[i])
  /\ ~CarriesToken(f.responses[Len(f.responses)])

\* C1: a fetch over N >= 1 pages without failure returns as many records as
\* there are items with a snippet and a video id on all N pages together.
C1_CountIsSumOfValid ==
  \A c \in DOMAIN calls :
    CompleteFetch(calls[c]) =>
      /\ calls[c].outcome.kind = "returned"
      /\ Len(calls[c].outcome.videos) =
           SumValid(calls[c].responses, Len(calls[c].responses))

\* A fetch of three pages returned, with items skipped and items kept.
C1_Witness ==
  \E c \in DOMAIN calls :
    /\ CompleteFetch(calls[c])
    /\ Len(calls[c].responses) = 3
    /\ Len(calls[c].outcome.videos) >= 4
    /\ \E i \in 1..3 : /\ ValidCount(calls[c].responses[i]) >= 1
                       /\ ValidCount(calls[c].responses[i]) <
                            Len(ItemsOf(calls[c].responses[i]))

InflightOf(c) == { k \in 1..Len(inflight) : inflight[k].call = c }

\* C2: a failed page request is the last thing the fetch does: nothing is
\* requested after it, the caller gets the one wrapped error and no records.
C2_FailureAborts ==
  \A c \in DOMAIN calls :
    \A i \in 1..Len(calls[c].responses) :
      calls[c].responses[i].kind = "error" =>
        /\ i = Len(calls[c].responses)
        /\ Len(calls[c].requests) = i
        /\ InflightOf(c) = {}
        /\ calls[c].state = "Failed"
        /\ calls[c].outcome =
             Threw(WrapApiError(calls[c].responses[i].message))

\* A request failed on a later page, after records had been accumulated.
C2_Witness ==
  \E c \in DOMAIN calls :
    /\ Len(calls[c].responses) >= 2
    /\ calls[c].responses[Len(calls[c].responses)].kind = "error"
    /\ Len(calls[c].videos) >= 1
    /\ calls[c].outcome.kind = "threw"

\* C3: requests are sequential and chained by the continuation token, and
\* the fetch is Fetching after a response with a token, Exhausted exactly
\* after a response without one, Failed after a request error; nothing is
\* requested once it is Exhausted or Failed.
C3_TokenChain ==
  \A c \in DOMAIN calls :
    LET f == calls[c]
        n == Len(f.responses)
    IN /\ Cardinality(InflightOf(c)) <= 1
       /\ Len(f.requests) = n + Cardinality(InflightOf(c))
       /\ \A i \in 1..Len(f.requests) :
            IF i = 1 THEN f.requests[i].pageToken = Undef
            ELSE /\ CarriesToken(f.responses[i - 1])
                 /\ f.requests[i].pageToken = f.responses[i - 1].nextPageToken
       /\ n >= 1 =>
            /\ f.responses[n].kind = "error" => f.state = "Failed"
            /\ CarriesToken(f.responses[n]) => f.state = "Fetching"
            /\ (f.responses[n].kind = "ok" /\ ~CarriesToken(f.responses[n]))
                 => f.state = "Exhausted" /\ f.outcome = Returned(f.videos)
       /\ f.state = "Exhausted" =>
            n >= 1 /\ f.responses[n].kind = "ok" /\ ~CarriesToken(f.responses[n])
       /\ f.state \in { "Exhausted", "Failed" } =>
            InflightOf(c) = {} /\ Len(f.requests) = n

\* Three requests went out, the second and third with different tokens.
C3_Witness ==
  \E c \in DOMAIN calls :
    /\ Len(calls[c].requests) = 3
    /\ calls[c].requests[2].pageToken = "T1"
    /\ calls[c].requests[3].pageToken = "T2"
    /\ calls[c].state = "Exhausted"

ProgressLines == SelectSeq(logFile, LAMBDA l : l.message[1] = "progress")

\* Page 1 has 50 valid items and token T1, page 2 has 3 valid items and no
\* token.
TwoPageScenario(f) ==
  f.responses = << OkResponse(MakeItems(FullShape, 1), "T1"),
                   OkResponse(MakeItems(ThreeShape, 2), Undef) >>

\* C5 as stated: the two-page scenario returns 53 records and logs two
\* progress observations.
C5_TwoObservations ==
  \A c \in DOMAIN calls :
    TwoPageScenario(calls[c]) =>
      /\ calls[c].outcome.kind = "returned"
      /\ Len(calls[c].outcome.videos) = 53
      /\ Len(ProgressLines) = 2

\* C5: the two-page scenario returns 53 records and logs exactly one
\* progress observation, the one after page 1, reporting 50.
C5_OneObservation ==
  \A c \in DOMAIN calls :
    TwoPageScenario(calls[c]) =>
      /\ calls[c].outcome.kind = "returned"
      /\ Len(calls[c].outcome.videos) = 53
      /\ ProgressLines = << LogLine("INFO", << "progress", 50 >>) >>

C5_Witness ==
  \E c \in DOMAIN calls :
    TwoPageScenario(calls[c]) /\ calls[c].state = "Exhausted"

ObservedPages(f) == { f.observed[i].page : i \in 1..Len(f.observed) }

\* Each observation reports the records accumulated up to and including
\* its page, and the observations are in page order, one per page.
ObservationsAccurate(f) ==
  /\ \A i \in 1..Len(f.observed) :
       f.observed[i].count = SumValid(f.responses, f.observed[i].page)
  /\ \A i \in 1..(Len(f.observed) - 1) :
       f.observed[i].page < f.observed[i + 1].page

\* C6 as stated: in a fetch of N pages the observations follow pages 2..N
\* and not page 1.
C6_AfterPagesPastFirst ==
  \A c \in DOMAIN calls :
    CompleteFetch(calls[c]) =>
      /\ ObservedPages(calls[c]) = 2..Len(calls[c].responses)
      /\ ObservationsAccurate(calls[c])

\* C6: an observation follows every page that carries a continuation token
\* (pages 1..N-1 of a fetch of N pages) and not the last page; each reports
\* the records accumulated up to and including its page.
C6_AfterPagesWithToken ==
  \A c \in DOMAIN calls :
    /\ ObservedPages(calls[c]) =
         { k \in 1..Len(calls[c].responses) : CarriesToken(calls[c].responses[k]) }
    /\ ObservationsAccurate(calls[c])
    /\ CompleteFetch(calls[c]) =>
         ObservedPages(calls[c]) = 1..(Len(calls[c].responses) - 1)

\* A fetch of three pages finished with two observations of growing counts.
C6_Witness ==
  \E c \in DOMAIN calls :
    /\ CompleteFetch(calls[c])
    /\ Len(calls[c].responses) = 3
    /\ Len(calls[c].observed) = 2
    /\ calls[c].observed[1].count >= 1
    /\ calls[c].observed[2].count > calls[c].observed[1].count

\* ------------------------------------------------------------------------
\* The extractor on its own
\* ------------------------------------------------------------------------
InitExtract ==
  /\ input \in ExtractInputs
  /\ extracted = NotYet
  /\ calls = [ c \in { 1 } |-> IdleCall ]
  /\ inflight = <<>>
  /\ logFile = <<>>
  /\ console = <<>>
  /\ logWritable = TRUE
  /\ NoFrontEnd

\* One call of extractPlaylistId on the input.
Extract ==
  /\ extracted = NotYet
  /\ extracted' = extractPlaylistId(input)
  /\ UNCHANGED << sideVars, input, fetchVars, cliVars, toolVars >>

NextExtract == Extract

SpecExtract == InitExtract /\ [][NextExtract]_vars


\* ========================================================================
\* Properties of the identifier extractor (SpecExtract)
\* ========================================================================
\* The positions p at which a query parameter list=<id> starts: the name
\* list= at the start of the input or right after a separator ? or &, a
\* non-empty value of class characters, and then the end of the input or
\* the next separator (& or #).
ListParams(s) ==
  { p \in 1..Len(s) :
      /\ p = 1 \/ s[p - 1] \in { "?", "&" }
      /\ MatchAt(s, p, ListEq)
      /\ p + 5 <= Len(s)
      /\ s[p + 5] \in IdChars
      /\ \/ RunEnd(s, p + 5) = Len(s)
         \/ s[RunEnd(s, p + 5) + 1] \in { "&", "#" } }

\* The value <id> of the query parameter that starts at p.
ListParamValue(s, p) == SubSeq(s, p + 5, RunEnd(s, p + 5))

\* C7 as stated: an input with a query parameter list=<id> (one such
\* parameter, so that <id> is determined) yields exactly <id>, whatever
\* precedes and follows the parameter.
C7_ListParamReturned ==
  (extracted # NotYet /\ Cardinality(ListParams(input)) = 1) =>
    \A p \in ListParams(input) : extracted = ListParamValue(input, p)

\* Some occurrence of list= in s is followed by a class character, so the
\* first pattern (and with it possibly the second) matches.
HasListEqId(s) ==
  \E p \in 1..Len(s) :
    MatchAt(s, p, ListEq) /\ p + 5 <= Len(s) /\ s[p + 5] \in IdChars

SchemeSep == << ":", "/", "/" >>

\* The input is not a URL: it has no scheme separator.
IsBareToken(s) == ~Includes(s, SchemeSep)

\* C8 as stated: a bare token longer than 10 characters without the scheme
\* substring is returned unchanged.
C8_BareTokenUnchanged ==
  ( /\ extracted # NotYet
    /\ IsBareToken(input)
    /\ Len(input) > 10
    /\ ~Includes(input, Http) ) => extracted = input

\* C8: a bare token longer than 10 characters without the scheme substring
\* in which no list= is followed by an identifier character is returned
\* unchanged.
C8_BareTokenWithoutListUnchanged ==
  ( /\ extracted # NotYet
    /\ IsBareToken(input)
    /\ Len(input) > 10
    /\ ~Includes(input, Http)
    /\ ~HasListEqId(input) ) => extracted = input

\* A bare token of 11 characters was returned unchanged.
C8_Witness ==
  /\ extracted = input
  /\ Len(input) = 11
  /\ IsBareToken(input)


\* ========================================================================
\* ConfigManager
\* ========================================================================
\* ConfigManager.loadConfig, run on the output state out: the parsed file,
\* or {} when the file is missing or does not parse (which is logged).
loadConfig(out, file, writable) ==
  IF file.exists /\ ~file.parses
    THEN [ data |-> EmptyConfig,
           out |-> Log(out, "ERROR", << "config load failed" >>, writable) ]
    ELSE [ data |-> IF file.exists THEN file.data ELSE EmptyConfig,
           out |-> out ]

\* The data written without the current content of the file.
MergeConfig_dataOnly(current, data) == data

\* { ...current, ...data }
MergeConfig(current, data) ==
  [ k \in DOMAIN current \cup DOMAIN data |->
      IF k \in DOMAIN data THEN data[k] ELSE current[k] ]

\* A catch block that logs the error it caught.
CatchAndLog(out, message, writable) ==
  Log([ out EXCEPT !.threw = FALSE ], "ERROR", message, writable)

\* ConfigManager.saveConfig: read, merge, write; any error is logged.
saveConfig(out, file, data, writable, fileWritable) ==
  LET current == loadConfig(out, file, writable)
  IN IF current.out.threw
       THEN [ file |-> file,
              out |-> CatchAndLog(current.out, << "config save failed" >>, writable) ]
     ELSE IF fileWritable
       THEN [ file |-> [ exists |-> TRUE, parses |-> TRUE,
                         data |-> MergeConfig(current.data, data) ],
              out |-> current.out ]
       ELSE [ file |-> file,
              out |-> CatchAndLog(current.out, << "config save failed" >>, writable) ]

\* ========================================================================
\* The CLI runner: main()
\* ========================================================================
\* The key resolved with the environment ahead of the config file.
ResolveKey_envFirst(optKey, cfgKey, envKey) ==
  IF Truthy(optKey) THEN optKey
  ELSE IF Truthy(envKey) THEN envKey
  ELSE cfgKey

\* options.key || config.api_key || process.env.YOUTUBE_API_KEY
ResolveKey(optKey, cfgKey, envKey) ==
  IF Truthy(optKey) THEN optKey
  ELSE IF Truthy(cfgKey) THEN cfgKey
  ELSE envKey

Header == << "title", "url", "video_id", "published_at" >>

\* The content written when an unrecognized format is rendered as json.
Render_jsonFallback(videos, format) ==
  IF format = "csv"
    THEN [ kind |-> "csv",
           lines |-> IF videos = <<>> THEN <<>>
                     ELSE << Header >> \o
                          [ i \in 1..Len(videos) |->
                              << videos[i].title, videos[i].url,
                                 videos[i].video_id, videos[i].published_at >> ] ]
  ELSE IF format = "txt"
    THEN [ kind |-> "txt",
           lines |-> [ i \in 1..Len(videos) |->
                         << videos[i].title, " - ", videos[i].url >> ] ]
    ELSE [ kind |-> "json", lines |-> videos ]

\* The content written to the output file for a format.
Render(videos, format) ==
  IF format = "csv"
    THEN [ kind |-> "csv",
           lines |-> IF videos = <<>> THEN <<>>
                     ELSE << Header >> \o
                          [ i \in 1..Len(videos) |->
                              << videos[i].title, videos[i].url,
                                 videos[i].video_id, videos[i].published_at >> ] ]
  ELSE IF format = "json"
    THEN [ kind |-> "json", lines |-> videos ]
    ELSE [ kind |-> "txt",
           lines |-> [ i \in 1..Len(videos) |->
                         << videos[i].title, " - ", videos[i].url >> ] ]

\* options.output || `playlist_${playlistId}.${outputFormat}`
OutputFileName(output, playlistId, format) ==
  IF TruthyStr(output) THEN output
  ELSE << "playlist_", playlistId, ".", format >>

FatalLine == LogLine("FATAL", << "Fatal Error:" >>)

\* process.exit(code)
Exited(code) ==
  [ pc |-> "exited", exitCode |-> code, fatal |-> FALSE ]

\* main() rejected: main().catch prints the error and the process ends on
\* its own, with exit code 0.
Fatal == [ pc |-> "exited", exitCode |-> 0, fatal |-> TRUE ]

\* How the process ends at a process.exit(code) that follows logging, or at
\* the end of main(): by that code, or through main().catch when the
\* logging threw.
EndOf(out, code) == IF out.threw THEN Fatal ELSE Exited(code)

\* What main().catch prints.
ConsoleAtEnd(out) ==
  IF out.threw THEN Append(out.console, FatalLine) ELSE out.console

UrlChoices ==
  { <<>>,
    <<"P","L","1">>,
    <<"a","b","c","d","e","f","g","P","L","1">>,
    <<"&","v","=","x","a","b","c","d","e","f","g">>,
    <<"?","l","i","s","t","=","P","L","1">>,
    <<"h","t","t","p","s",":","/","/","y",".","t">> }

Formats == { "csv", "json", "txt", "xml" }

ConfigFiles ==
  { NoConfigFile,
    [ exists |-> TRUE, parses |-> FALSE, data |-> EmptyConfig ],
    [ exists |-> TRUE, parses |-> TRUE, data |-> EmptyConfig ],
    [ exists |-> TRUE, parses |-> TRUE, data |-> [ api_key |-> "K2" ] ] }

\* What the API may answer to the request for page pageNo of a front end.
FrontResponses(pageNo) ==
  { OkResponse(MakeItems(shape, pageNo), token) :
      shape \in { <<>>, << "video" >>, << "noSnippet", "video" >> },
      token \in { Undef, "T1" } }
  \cup { ErrorResponse(m) : m \in ApiErrors }

InitCli ==
  /\ input = <<>>
  /\ extracted = NotYet
  /\ calls = [ c \in { 1 } |-> IdleCall ]
  /\ inflight = <<>>
  /\ logFile = <<>>
  /\ console = <<>>
  /\ logWritable \in BOOLEAN
  /\ opts \in [ url : UrlChoices \cup { Undefined }, key : { Undef, "K1" },
               output : { Undefined, << "out.dat" >> }, format : Formats,
               saveKey : BOOLEAN, server : BOOLEAN ]
  /\ env \in { Undef, "K3" }
  /\ configFile \in ConfigFiles
  /\ cfgWritable \in BOOLEAN
  /\ outWritable \in BOOLEAN
  /\ written = <<>>
  /\ cli = [ pc |-> "start", exitCode |-> -1, fatal |-> FALSE,
             apiKey |-> Undef, playlistId |-> Null ]
  /\ tool = <<>>
  /\ NoRoutes
  /\ NoWriters

\* main() from its start to its first await, its return or its exit.
MainStart ==
  /\ cli.pc = "start"
  /\ LET out0 == [ console |-> console, logFile |-> logFile, threw |-> FALSE ]
         cfg == loadConfig(out0, configFile, logWritable)
         apiKey == ResolveKey(opts.key, cfg.data.api_key, env)
         saving == opts.saveKey /\ Truthy(opts.key)
         saved == saveConfig(cfg.out, configFile, [ api_key |-> opts.key ],
                             logWritable, cfgWritable)
         afterSave == IF saving
                        THEN Log(saved.out, "INFO", << "key saved" >>, logWritable)
                        ELSE cfg.out
         playlistId == IF TruthyStr(opts.url) THEN extractPlaylistId(opts.url)
                       ELSE Null
         finish(out, end, file) ==
           /\ cli' = [ cli EXCEPT !.pc = end.pc, !.exitCode = end.exitCode,
                                  !.fatal = end.fatal, !.apiKey = apiKey ]
           /\ console' = ConsoleAtEnd(out)
           /\ logFile' = out.logFile
           /\ configFile' = file
           /\ UNCHANGED calls
     IN IF cfg.out.threw
          THEN finish(cfg.out, Fatal, configFile)
        ELSE IF ~Truthy(apiKey)
          THEN LET out == Log(cfg.out, "ERROR", << "API key required" >>, logWritable)
               IN finish(out, EndOf(out, 1), configFile)
        ELSE IF afterSave.threw
          THEN finish(afterSave, Fatal, IF saving THEN saved.file ELSE configFile)
        ELSE LET file == IF saving THEN saved.file ELSE configFile
             IN IF opts.server
                  THEN finish(afterSave,
                              [ pc |-> "serving", exitCode |-> -1, fatal |-> FALSE ],
                              file)
                ELSE IF ~TruthyStr(opts.url)
                  THEN LET out == Log(afterSave, "ERROR", << "url required" >>,
                                      logWritable)
                       IN finish(out, EndOf(out, 1), file)
                ELSE IF ~TruthyStr(playlistId)
                  THEN LET out == Log(afterSave, "ERROR", << "invalid playlist url" >>,
                                      logWritable)
                           caught == IF out.threw
                                       THEN CatchAndLog(out, << "error", LogWriteError >>,
                                                        logWritable)
                                       ELSE out
                       IN finish(caught, EndOf(caught, 1), file)
                ELSE /\ cli' = [ cli EXCEPT !.pc = "fetching", !.apiKey = apiKey,
                                            !.playlistId = playlistId ]
                     /\ calls' = [ calls EXCEPT ![1] =
                                     BeginFetch(playlistId, logWritable) ]
                     /\ console' = Append(afterSave.console,
                                          LogLine("INFO", << "fetching", playlistId >>))
                     /\ logFile' = IF logWritable
                                     THEN Append(afterSave.logFile,
                                            LogLine("INFO", << "fetching", playlistId >>))
                                     ELSE afterSave.logFile
                     /\ configFile' = file
  /\ UNCHANGED << sideVars, extractVars, inflight, logWritable, opts, env, cfgWritable,
                  outWritable, written, tool >>

\* main() from the end of the awaited fetch to the end of the process: the
\* export, or the catch block.
MainFinish ==
  /\ cli.pc = "fetching"
  /\ calls[1].state \in { "Exhausted", "Failed" }
  /\ LET out0 == [ console |-> console, logFile |-> logFile, threw |-> FALSE ]
         finish(out, end) ==
           /\ cli' = [ cli EXCEPT !.pc = end.pc, !.exitCode = end.exitCode,
                                  !.fatal = end.fatal ]
           /\ console' = ConsoleAtEnd(out)
           /\ logFile' = out.logFile
     IN IF calls[1].outcome.kind = "threw"
          THEN LET out == CatchAndLog(out0, << "error", calls[1].outcome.error >>,
                                      logWritable)
               IN finish(out, EndOf(out, 1)) /\ UNCHANGED written
        ELSE
          LET videos == calls[1].outcome.videos
              done == Log(out0, "INFO", << "done", Len(videos) >>, logWritable)
              content == Render(videos, opts.format)
              outputFile == OutputFileName(opts.output, cli.playlistId, opts.format)
          IN IF done.threw
               THEN LET out == CatchAndLog(done, << "error", LogWriteError >>,
                                           logWritable)
                    IN finish(out, EndOf(out, 1)) /\ UNCHANGED written
             ELSE IF ~outWritable
               THEN LET out == CatchAndLog(done, << "error", "EACCES: output" >>,
                                           logWritable)
                    IN finish(out, EndOf(out, 1)) /\ UNCHANGED written
             ELSE LET out == Log(done, "INFO", << "saved", outputFile >>, logWritable)
                      caught == IF out.threw
                                  THEN CatchAndLog(out, << "error", LogWriteError >>,
                                                   logWritable)
                                  ELSE out
                  IN /\ finish(caught, EndOf(caught, IF out.threw THEN 1 ELSE 0))
                     /\ written' = Append(written,
                                     [ name |-> outputFile, content |-> content ])
  /\ UNCHANGED << sideVars, extractVars, calls, inflight, logWritable, opts, env,
                  configFile,
                  cfgWritable, outWritable, tool >>

\* The API answers a request of a front end.
ApiRespondFront ==
  \E k \in 1..Len(inflight) :
    \E resp \in FrontResponses(Len(calls[inflight[k].call].requests)) :
      Deliver(k, resp)

NextCli ==
  \/ MainStart
  \/ cli.pc = "fetching" /\ SendRequest(1)
       /\ UNCHANGED << sideVars, extractVars, cliVars, toolVars >>
  \/ cli.pc = "fetching" /\ ApiRespondFront
       /\ UNCHANGED << sideVars, extractVars, cliVars, toolVars >>
  \/ MainFinish


\* ========================================================================
\* The MCP server: the CallToolRequestSchema handler
\* ========================================================================
ToolName == "get_playlist_videos"

\* A tool-call request: params.name and params.arguments (absent, or an
\* object whose playlist_url is a string or missing).
ToolRequests ==
  { [ name |-> n, hasArguments |-> TRUE, playlist_url |-> u ] :
      n \in { ToolName, "other_tool" }, u \in UrlChoices \cup { Undefined } }
  \cup { [ name |-> n, hasArguments |-> FALSE, playlist_url |-> Undefined ] :
           n \in { ToolName, "other_tool" } }

\* { content: [{ type: "text", text }] }
Content(text) == [ kind |-> "content", text |-> text ]

\* The handler threw: the protocol answers with an error.
Fault(error) == [ kind |-> "fault", error |-> error ]

RequiredText == << "Error: playlist_url is required" >>
InvalidUrlText == << "Error: Invalid playlist URL" >>
ArgumentsTypeError ==
  << "TypeError: Cannot read properties of undefined (reading 'playlist_url')" >>

\* `Found ${videos.length} videos in playlist:\n` and the numbered lines.
SummaryText(videos) ==
  << "Found ", Len(videos),
     [ i \in 1..Len(videos) |-> << i, ". ", videos[i].title, videos[i].url >> ] >>

IdleTool ==
  [ pc |-> "idle", request |-> [ name |-> "", hasArguments |-> FALSE,
                                 playlist_url |-> Undefined ],
    result |-> Pending ]

InitServer ==
  /\ input = <<>>
  /\ extracted = NotYet
  /\ calls = [ c \in { 1 } |-> IdleCall ]
  /\ inflight = <<>>
  /\ logFile = <<>>
  /\ console = <<>>
  /\ logWritable \in BOOLEAN
  /\ opts = [ NoOpts EXCEPT !.key = "K1", !.server = TRUE ]
  /\ env = Undef
  /\ configFile = NoConfigFile
  /\ cfgWritable = TRUE
  /\ outWritable = TRUE
  /\ written = <<>>
  /\ cli = [ NoCli EXCEPT !.pc = "serving", !.apiKey = "K1" ]
  /\ tool = [ c \in { 1 } |-> IdleTool ]
  /\ NoRoutes
  /\ NoWriters

\* The handler for request req, as tool call c, from its start to its first
\* await, its return or its throw.
ToolCallStart(c, req) ==
  /\ cli.pc = "serving"
  /\ c \in DOMAIN tool
  /\ tool[c].pc = "idle"
  /\ LET answer(result) ==
           /\ tool' = [ tool EXCEPT ![c] =
                          [ pc |-> "done", request |-> req, result |-> result ] ]
           /\ UNCHANGED << calls, console, logFile >>
         playlistId == IF TruthyStr(req.playlist_url)
                         THEN extractPlaylistId(req.playlist_url)
                         ELSE Null
     IN IF req.name # ToolName
          THEN answer(Fault(<< "Tool not found: ", req.name >>))
        ELSE IF ~req.hasArguments
          THEN answer(Fault(ArgumentsTypeError))
        ELSE IF ~TruthyStr(req.playlist_url)
          THEN answer(Content(RequiredText))
        ELSE IF ~TruthyStr(playlistId)
          THEN answer(Content(InvalidUrlText))
        ELSE /\ tool' = [ tool EXCEPT ![c] =
                            [ pc |-> "fetching", request |-> req,
                              result |-> Pending ] ]
             /\ calls' = [ calls EXCEPT ![c] = BeginFetch(playlistId, logWritable) ]
             /\ console' = Append(console,
                                  LogLine("INFO", << "fetching", playlistId >>))
             /\ logFile' = IF logWritable
                             THEN Append(logFile,
                                    LogLine("INFO", << "fetching", playlistId >>))
                             ELSE logFile
  /\ UNCHANGED << sideVars, extractVars, inflight, logWritable, cliVars >>

\* The handler of tool call c after the awaited fetch: the summary, or the
\* catch block's text.
ToolCallFinish(c) ==
  /\ c \in DOMAIN tool
  /\ tool[c].pc = "fetching"
  /\ calls[c].state \in { "Exhausted", "Failed" }
  /\ tool' = [ tool EXCEPT
       ![c].pc = "done",
       ![c].result =
          IF calls[c].outcome.kind = "threw"
            THEN Content(<< "Error processing request: ", calls[c].outcome.error >>)
            ELSE Content(SummaryText(calls[c].outcome.videos)) ]
  /\ UNCHANGED << sideVars, extractVars, fetchVars, cliVars >>

NextServer ==
  \/ \E req \in ToolRequests : ToolCallStart(1, req)
  \/ 1 \in DOMAIN tool /\ tool[1].pc = "fetching" /\ SendRequest(1)
       /\ UNCHANGED << sideVars, extractVars, cliVars, toolVars >>
  \/ 1 \in DOMAIN tool /\ tool[1].pc = "fetching" /\ ApiRespondFront
       /\ UNCHANGED << sideVars, extractVars, cliVars, toolVars >>
  \/ ToolCallFinish(1)

\* ========================================================================
\* The program: a CLI run, or a server handling a tool call
\* ========================================================================
Init == InitCli \/ InitServer

Next == NextCli \/ NextServer

Spec == Init /\ [][Next]_vars


\* ========================================================================
\* Properties of the front ends (Spec)
\* ========================================================================
\* C4 as stated: the handler faults only for an unknown tool name; every
\* call that names get_playlist_videos is answered with a text payload.
C4_FaultOnlyForUnknownTool ==
  \A c \in DOMAIN tool :
    tool[c].pc = "done" =>
      /\ tool[c].request.name # ToolName => tool[c].result.kind = "fault"
      /\ tool[c].request.name = ToolName => tool[c].result.kind = "content"

\* An input of at most 10 characters in which no list= is followed by an
\* identifier character.
ShortNoPattern(u) == u # Undefined /\ Len(u) <= 10 /\ ~HasListEqId(u)

\* A CLI run that never resolves an identifier: nothing is fetched and no
\* output file is written.
CliRejects ==
  /\ cli.playlistId = Null
  /\ cli.pc \in { "start", "exited", "serving" }
  /\ calls[1].state = "Idle"
  /\ calls[1].requests = <<>>
  /\ inflight = <<>>
  /\ written = <<>>

\* The tool call was answered with text without anything being fetched.
ToolAnswersWithout(c, text) ==
  /\ tool[c].result = Content(text)
  /\ calls[c].state = "Idle"
  /\ calls[c].requests = <<>>
  /\ inflight = <<>>

\* C9 as stated: an input of at most 10 characters that matches neither
\* pattern yields no identifier, so the CLI rejects it and the server
\* answers 'Invalid playlist URL', both without an API request.
C9_ShortInputInvalidUrl ==
  /\ (cli.pc \in { "start", "fetching", "exited" } /\ ShortNoPattern(opts.url))
       => CliRejects
  /\ \A c \in DOMAIN tool :
       ( /\ tool[c].pc # "idle"
         /\ tool[c].request.name = ToolName
         /\ tool[c].request.hasArguments
         /\ ShortNoPattern(tool[c].request.playlist_url) )
       => tool[c].pc = "done" /\ ToolAnswersWithout(c, InvalidUrlText)

\* C9: an input of at most 10 characters that matches neither pattern
\* yields no identifier, so the CLI rejects it and the server answers
\* 'Invalid playlist URL', or 'playlist_url is required' when the input is
\* empty, both without an API request.
C9_ShortInputRejected ==
  /\ (cli.pc \in { "start", "fetching", "exited" } /\ ShortNoPattern(opts.url))
       => CliRejects
  /\ \A c \in DOMAIN tool :
       ( /\ tool[c].pc # "idle"
         /\ tool[c].request.name = ToolName
         /\ tool[c].request.hasArguments
         /\ ShortNoPattern(tool[c].request.playlist_url) )
       => /\ tool[c].pc = "done"
          /\ ToolAnswersWithout(c,
               IF tool[c].request.playlist_url = <<>> THEN RequiredText
               ELSE InvalidUrlText)

\* The server answered 'Invalid playlist URL' to an input of 10 characters.
C9_Witness ==
  \E c \in DOMAIN tool :
    /\ tool[c].pc = "done"
    /\ Len(tool[c].request.playlist_url) = 10
    /\ tool[c].result = Content(InvalidUrlText)

\* No API key in --key, the config file or the environment.
NoKeyAvailable ==
  /\ ~Truthy(opts.key)
  /\ ~(configFile.exists /\ configFile.parses /\ Truthy(configFile.data.api_key))
  /\ ~Truthy(env)

\* The cases in which the run is to end with exit code 1.
ExitOneCase ==
  \/ NoKeyAvailable
  \/ ~opts.server /\ ~TruthyStr(opts.url)
  \/ ~opts.server /\ TruthyStr(opts.url) /\ extractPlaylistId(opts.url) = Null
  \/ calls[1].outcome.kind = "threw"
  \/ calls[1].outcome.kind = "returned" /\ ~outWritable

\* C10 as stated: a run ends with exit code 1 in the listed cases and with
\* exit code 0 in every other.
C10_ExitCodes ==
  (cli.pc = "exited" /\ tool = <<>>) =>
    cli.exitCode = IF ExitOneCase THEN 1 ELSE 0

\* The key source of the config file: its api_key when the file is there
\* and parses.
ConfigKey ==
  IF configFile.exists /\ configFile.parses THEN configFile.data.api_key
  ELSE Undef

\* C11 as stated: with no API key from any source the run exits with code
\* 1 before anything else happens: no output file, no page request, no
\* server, no write of the config file, whatever the other flags.
C11_NoKeyExitsFirst ==
  (tool = <<>> /\ NoKeyAvailable /\ cli.pc # "start") =>
    /\ cli.pc = "exited"
    /\ cli.exitCode = 1
    /\ written = <<>>
    /\ calls[1].requests = <<>>
    /\ inflight = <<>>
    /\ configFile \in ConfigFiles

\* C12: the key of a run is --key when present, else the api_key of the
\* config file when present, else YOUTUBE_API_KEY, for every combination
\* of present and absent sources.
C12_KeyPrecedence ==
  ( /\ tool = <<>>
    /\ cli.pc # "start"
    /\ ~(configFile.exists /\ ~configFile.parses /\ ~logWritable) ) =>
    /\ Truthy(opts.key) => cli.apiKey = opts.key
    /\ (~Truthy(opts.key) /\ Truthy(ConfigKey)) => cli.apiKey = ConfigKey
    /\ (~Truthy(opts.key) /\ ~Truthy(ConfigKey)) => cli.apiKey = env
    /\ cli.pc \in { "fetching", "serving" } => Truthy(cli.apiKey)

\* A run without --key uses the key of the config file although the
\* environment holds one too.
C12_Witness ==
  /\ cli.pc = "fetching"
  /\ ~Truthy(opts.key)
  /\ ConfigKey = "K2"
  /\ env = "K3"
  /\ cli.apiKey = "K2"

\* The txt rendering: one line '<title> - <url>' per record, in order.
TxtLines(videos) ==
  [ i \in 1..Len(videos) |-> << videos[i].title, " - ", videos[i].url >> ]

\* C15: a run with a --format other than csv and json (txt or unrecognized)
\* that fetched its records writes their txt rendering and reports no
\* error of the export; the format never changes the exit code.
C15_OtherFormatsAsTxt ==
  ( /\ tool = <<>>
    /\ cli.pc = "exited"
    /\ opts.format \notin { "csv", "json" } ) =>
    /\ (calls[1].outcome.kind = "returned" /\ outWritable) =>
         /\ Len(written) = 1
         /\ written[1].content.kind = "txt"
         /\ written[1].content.lines = TxtLines(calls[1].outcome.videos)
         /\ \A i \in 1..Len(console) : console[i].message[1] # "error"
         /\ cli.exitCode = 0
    /\ cli.exitCode = IF ExitOneCase /\ ~cli.fatal THEN 1 ELSE 0

\* A run with an unrecognized format wrote the txt lines of two records
\* and ended with exit code 0.
C15_Witness ==
  /\ cli.pc = "exited"
  /\ opts.format = "xml"
  /\ Len(written) = 1
  /\ Len(written[1].content.lines) = 2
  /\ written[1].content.lines = TxtLines(calls[1].outcome.videos)
  /\ cli.exitCode = 0

\* Enumeration order of the API: page k before page k+1, and on a page the
\* order of its items. A video id of the model is << page, index >>.
Before(a, b) == a[1] < b[1] \/ (a[1] = b[1] /\ a[2] < b[2])

\* The positions of the items of the answered pages that yield a record.
ValidPositions(responses) ==
  { << k, i >> \in (1..Len(responses)) \X (1..maxResults) :
      /\ responses[k].kind = "ok"
      /\ i <= Len(ItemsOf(responses[k]))
      /\ IsValidItem(ItemsOf(responses[k])[i]) }

\* C16: the records of a fetch are in the order in which the API
\* enumerated their items: page by page and in page order, with nothing
\* duplicated, re-sorted or moved by the skipping of invalid items.
C16_EnumerationOrder ==
  \A c \in DOMAIN calls :
    calls[c].outcome.kind = "returned" =>
      LET v == calls[c].outcome.videos
      IN /\ \A i \in 1..Len(v) : \A j \in (i + 1)..Len(v) :
              Before(v[i].video_id, v[j].video_id)
         /\ { v[i].video_id : i \in 1..Len(v) } = ValidPositions(calls[c].responses)

\* A returned fetch of two pages in which skipped items lie between the
\* records of the first page and a record of the second follows them.
C16_Witness ==
  \E c \in DOMAIN calls :
    /\ calls[c].outcome.kind = "returned"
    /\ Len(calls[c].responses) = 2
    /\ ValidCount(calls[c].responses[1]) = 3
    /\ Len(ItemsOf(calls[c].responses[1])) = 5
    /\ Len(calls[c].outcome.videos) = 4
    /\ calls[c].outcome.videos[4].video_id = << 2, 1 >>

\* r is captured from a match of list=<id> in s: a non-empty run of class
\* characters that follows an occurrence of list=.
IsListCapture(s, r) ==
  /\ r # <<>>
  /\ \A i \in 1..Len(r) : r[i] \in IdChars
  /\ \E p \in 1..Len(s) :
       /\ MatchAt(s, p, ListEq)
       /\ p + 4 + Len(r) <= Len(s)
       /\ SubSeq(s, p + 5, p + 4 + Len(r)) = r

\* C17 as stated: every result other than null is a non-empty string: a
\* capture of class characters from a list=<id> match, or the input
\* verbatim, longer than 10 characters and not a URL.
C17_ResultShape ==
  (extracted # NotYet /\ extracted # Null) =>
    /\ extracted # <<>>
    /\ \/ IsListCapture(input, extracted)
       \/ /\ extracted = input
          /\ Len(input) > MinRawIdLen
          /\ IsBareToken(input)

\* ========================================================================
\* The fetcher under fair scheduling (SpecFetchFair)
\* ========================================================================
\* What the API may answer to the request for page pageNo: an empty or a
\* one-item page with any token or none, or an error.
LoopResponses(pageNo) ==
  { OkResponse(MakeItems(shape, pageNo), token) :
      shape \in { <<>>, << "video" >> }, token \in Tokens \cup { Undef, "" } }
  \cup { ErrorResponse(m) : m \in ApiErrors }

ApiRespondLoop ==
  \E k \in 1..Len(inflight) :
    \E resp \in LoopResponses(Len(calls[inflight[k].call].requests)) :
      Deliver(k, resp)

NextFetchFair ==
  \/ \E p \in PlaylistIds :
       CallFetch(1, p) /\ UNCHANGED << sideVars, extractVars, cliVars, toolVars >>
  \/ SendRequest(1) /\ UNCHANGED << sideVars, extractVars, cliVars, toolVars >>
  \/ ApiRespondLoop /\ UNCHANGED << sideVars, extractVars, cliVars, toolVars >>

\* The event loop runs every continuation that is ready, and the API
\* answers every request it was sent.
SpecFetchFair ==
  /\ InitFetch
  /\ [][NextFetchFair]_vars
  /\ WF_vars(SendRequest(1) /\ UNCHANGED << sideVars, extractVars, cliVars, toolVars >>)
  /\ WF_vars(ApiRespondLoop /\ UNCHANGED << sideVars, extractVars, cliVars, toolVars >>)

\* Every page answered so far carried a continuation token.
OnlyTokensSoFar(f) ==
  /\ Len(f.responses) >= 1
  /\ \A i \in 1..Len(f.responses) : CarriesToken(f.responses[i])

\* C19: a fetch ends in Exhausted or Failed once the API answers a request
\* without a token or with an error; as long as every answer carries a
\* token (be it the same token again) the fetch stays in Fetching and asks
\* for the next page, for as many pages as the model follows.
C19_TerminatesUnlessTokens ==
  /\ (calls[1].state = "Fetching") ~>
       \/ calls[1].state \in { "Exhausted", "Failed" }
       \/ Len(calls[1].responses) = MaxPages /\ OnlyTokensSoFar(calls[1])
  /\ [](OnlyTokensSoFar(calls[1]) =>
          /\ calls[1].state = "Fetching"
          /\ calls[1].outcome = Pending
          /\ RequestOf(calls[1]).pageToken =
               calls[1].responses[Len(calls[1].responses)].nextPageToken)

\* A fetch that was answered the same token on every page, as many pages
\* as the model follows, is still in Fetching.
C19_Witness ==
  /\ calls[1].state = "Fetching"
  /\ Len(calls[1].responses) = MaxPages
  /\ \A i \in 1..MaxPages : calls[1].responses[i].kind = "ok"
  /\ \A i \in 1..MaxPages : calls[1].responses[i].nextPageToken = "T1"

\* ========================================================================
\* The MCP server handling two tool calls at once (SpecConcurrent)
\* ========================================================================
\* The tool calls in progress at the same time; they share the server's one
\* extractor and its log file.
Invocations == { 1, 2 }

InitConcurrent ==
  /\ input = <<>>
  /\ extracted = NotYet
  /\ calls = [ c \in Invocations |-> IdleCall ]
  /\ inflight = <<>>
  /\ logFile = <<>>
  /\ console = <<>>
  /\ logWritable \in BOOLEAN
  /\ opts = [ NoOpts EXCEPT !.key = "K1", !.server = TRUE ]
  /\ env = Undef
  /\ configFile = NoConfigFile
  /\ cfgWritable = TRUE
  /\ outWritable = TRUE
  /\ written = <<>>
  /\ cli = [ NoCli EXCEPT !.pc = "serving", !.apiKey = "K1" ]
  /\ tool = [ c \in Invocations |-> IdleTool ]
  /\ NoRoutes
  /\ NoWriters

\* What the API may answer to request for its page pageNo: items of the
\* playlist the request names (the video id of an item is its playlist,
\* page and index), with a token or none, or an error.
ConcurrentResponses(request, pageNo) ==
  { OkResponse(MakeItems(<< "noSnippet", "video" >>,
                         << request.playlistId, pageNo >>), token) :
      token \in { Undef, "T1" } }
  \cup { ErrorResponse(m) : m \in ApiErrors }

\* The API answers any one of the requests in flight.
ApiRespondConcurrent ==
  \E k \in 1..Len(inflight) :
    \E resp \in ConcurrentResponses(inflight[k].request,
                                    Len(calls[inflight[k].call].requests)) :
      Deliver(k, resp)

NextConcurrent ==
  \/ \E c \in Invocations : \E req \in ToolRequests : ToolCallStart(c, req)
  \/ \E c \in Invocations :
       /\ tool[c].pc = "fetching" /\ SendRequest(c)
       /\ UNCHANGED << sideVars, extractVars, cliVars, toolVars >>
  \/ ApiRespondConcurrent /\ UNCHANGED << sideVars, extractVars, cliVars, toolVars >>
  \/ \E c \in Invocations : ToolCallFinish(c)

SpecConcurrent == InitConcurrent /\ [][NextConcurrent]_vars

\* The positions, in playlist p, of the items of the answered pages that
\* yield a record.
OwnPositions(p, responses) ==
  { << << p, k >>, i >> : k \in 1..Len(responses), i \in 1..2 } \cap
  { << << p, pos[1] >>, pos[2] >> : pos \in ValidPositions(responses) }

\* C20: tool calls that run at once and take turns page by page do not
\* interfere: each asks for the pages of its own playlist along its own
\* token chain, each result holds exactly the records of the pages
\* answered for its own playlist, in order, and a call fails only when a
\* request of its own failed.
C20_NoInterference ==
  \A c \in DOMAIN calls :
    LET f == calls[c]
    IN /\ \A i \in 1..Len(f.requests) :
            /\ f.requests[i].playlistId = f.playlistId
            /\ f.requests[i].pageToken =
                 IF i = 1 THEN Undef ELSE f.responses[i - 1].nextPageToken
       /\ CompleteFetch(f) =>
            /\ f.outcome.kind = "returned"
            /\ LET v == f.outcome.videos
               IN /\ \A i \in 1..Len(v) : \A j \in (i + 1)..Len(v) :
                       Before(<< v[i].video_id[1][2], v[i].video_id[2] >>,
                              << v[j].video_id[1][2], v[j].video_id[2] >>)
                  /\ { v[i].video_id : i \in 1..Len(v) } =
                       OwnPositions(f.playlistId, f.responses)
       /\ (f.outcome.kind = "threw" /\ logWritable) =>
            /\ Len(f.responses) >= 1
            /\ f.responses[Len(f.responses)].kind = "error"
       /\ (c \in DOMAIN tool /\ tool[c].pc = "done" /\ f.state # "Idle") =>
            tool[c].result =
              IF f.outcome.kind = "returned"
                THEN Content(SummaryText(f.outcome.videos))
                ELSE Content(<< "Error processing request: ", f.outcome.error >>)

\* Two calls for different playlists were both started before either was
\* answered; the first failed on its second page and the second returned
\* the two records of its two pages.
C20_Witness ==
  /\ DOMAIN calls = Invocations
  /\ Len(logFile) >= 2
  /\ logFile[1].message[1] = "fetching"
  /\ logFile[2].message[1] = "fetching"
  /\ calls[1].playlistId # calls[2].playlistId
  /\ calls[1].outcome.kind = "threw"
  /\ Len(calls[1].responses) = 2
  /\ calls[2].outcome.kind = "returned"
  /\ Len(calls[2].responses) = 2
  /\ Len(calls[2].outcome.videos) = 2
  /\ tool[1].pc = "done"
  /\ tool[2].pc = "done"

\* ========================================================================
\* The routes of the MCP server: GET /sse and POST /messages (SpecRoutes)
\* ========================================================================
\* The clients of the server.
Clients == { 1, 2 }

\* The answers to a POST /messages: handed to transport.handlePostMessage
\* of session t, or res.status(400).json({ error: "No active transport" }).
Handled(t) == [ status |-> "handled", transport |-> t ]
Rejected == [ status |-> "400 No active transport", transport |-> 0 ]

InitRoutes ==
  /\ input = <<>>
  /\ extracted = NotYet
  /\ calls = [ c \in { 1 } |-> IdleCall ]
  /\ inflight = <<>>
  /\ logFile = <<>>
  /\ console = <<>>
  /\ logWritable \in BOOLEAN
  /\ opts = [ NoOpts EXCEPT !.key = "K1", !.server = TRUE ]
  /\ env = Undef
  /\ configFile = NoConfigFile
  /\ cfgWritable = TRUE
  /\ outWritable = TRUE
  /\ written = <<>>
  /\ cli = [ NoCli EXCEPT !.pc = "serving", !.apiKey = "K1" ]
  /\ tool = [ c \in { 1 } |-> IdleTool ]
  /\ NoRoutes
  /\ NoWriters

\* The handler of GET /sse for client c keeping a transport that is
\* already there.
GetSse_keepFirst(c) ==
  /\ Len(console) < MaxSessions
  /\ LET out == Log([ console |-> console, logFile |-> logFile, threw |-> FALSE ],
                    "INFO", << "New SSE connection established" >>, logWritable)
     IN /\ console' = out.console
        /\ logFile' = out.logFile
        /\ IF out.threw
             THEN UNCHANGED << transport, sessions >>
             ELSE /\ sessions' = Append(sessions, [ client |-> c, open |-> TRUE ])
                  /\ transport' = IF transport = 0 THEN Len(sessions) + 1
                                  ELSE transport
  /\ UNCHANGED << posts, saveVars, extractVars, calls, inflight, logWritable,
                  cliVars, toolVars >>

\* The handler of GET /sse for client c: the line is logged, a transport is
\* made on the response and put in the one handle, and the server is
\* connected to it. Nothing is made when the logging throws. Every GET
\* /sse prints one line, so the console counts them.
GetSse(c) ==
  /\ Len(console) < MaxSessions
  /\ LET out == Log([ console |-> console, logFile |-> logFile, threw |-> FALSE ],
                    "INFO", << "New SSE connection established" >>, logWritable)
     IN /\ console' = out.console
        /\ logFile' = out.logFile
        /\ IF out.threw
             THEN UNCHANGED << transport, sessions >>
             ELSE /\ sessions' = Append(sessions, [ client |-> c, open |-> TRUE ])
                  /\ transport' = Len(sessions) + 1
  /\ UNCHANGED << posts, saveVars, extractVars, calls, inflight, logWritable,
                  cliVars, toolVars >>

\* The connection of session t closes. No code of the server runs.
CloseSse(t) ==
  /\ t \in 1..Len(sessions)
  /\ sessions[t].open
  /\ sessions' = [ sessions EXCEPT ![t].open = FALSE ]
  /\ UNCHANGED << transport, posts, saveVars, extractVars, fetchVars, cliVars,
                  toolVars >>

\* The sessions whose connection is open.
OpenSessions == { t \in 1..Len(sessions) : sessions[t].open }

\* The handler of POST /messages for a request of client c. With the
\* answer the model keeps the sessions made and open at that moment.
PostMessages(c) ==
  /\ Len(posts) < MaxPosts
  /\ posts' = Append(posts,
       [ client |-> c,
         answer |-> IF transport # 0 THEN Handled(transport) ELSE Rejected,
         latest |-> Len(sessions),
         openThen |-> OpenSessions ])
  /\ UNCHANGED << transport, sessions, saveVars, extractVars, fetchVars, cliVars,
                  toolVars >>

NextRoutes ==
  \/ \E c \in Clients : GetSse(c)
  \/ \E t \in 1..Len(sessions) : CloseSse(t)
  \/ \E c \in Clients : PostMessages(c)

SpecRoutes == InitRoutes /\ [][NextRoutes]_vars

\* C13: every POST /messages that finds a transport is handled by the
\* transport of the most recent GET /sse, whichever client sent it; so once
\* a second client has opened GET /sse while the first client's session is
\* open, the first client's later POSTs go to the second client's transport.
C13_LatestTransportHandles ==
  \A i \in 1..Len(posts) :
    posts[i].latest # 0 => posts[i].answer = Handled(posts[i].latest)

\* A POST of the first client, whose session was open, was handled by the
\* transport of the second client's session.
C13_Witness ==
  \E i \in 1..Len(posts) :
    /\ posts[i].client = 1
    /\ Len(sessions) >= 2
    /\ sessions[1].client = 1
    /\ sessions[2].client = 2
    /\ 1 \in posts[i].openThen
    /\ posts[i].answer = Handled(2)

\* C18 as stated: a POST /messages is answered 400 'No active transport'
\* exactly when no session is open at that moment: before the first GET
\* /sse and again after the open session's connection has closed; such a
\* POST is handed to no transport.
C18_RejectedIffNoOpenSession ==
  \A i \in 1..Len(posts) :
    posts[i].answer = Rejected <=> posts[i].openThen = {}

\* ========================================================================
\* Processes that run ConfigManager.saveConfig at once (SpecSave)
\* ========================================================================
\* The processes that save to the one cli_config.json.
Writers == { 1, 2 }

\* What a process saves: the key, or a field of another name.
SaveData == { [ api_key |-> "K1" ], [ default_format |-> "json" ] }

\* The config file a save may find.
SaveFiles ==
  ConfigFiles \cup
  { [ exists |-> TRUE, parses |-> TRUE,
      data |-> [ api_key |-> "K2", default_format |-> "csv" ] ] }

\* A process that has not called saveConfig. Besides its data and the
\* current it read, the model keeps the file as it was when the process
\* read it, and right before and right after its write.
IdleWriter ==
  [ pc |-> "idle", data |-> EmptyConfig, current |-> EmptyConfig,
    wrote |-> FALSE, readFrom |-> NoConfigFile, before |-> NoConfigFile,
    after |-> NoConfigFile ]

InitSave ==
  /\ input = <<>>
  /\ extracted = NotYet
  /\ calls = [ c \in { 1 } |-> IdleCall ]
  /\ inflight = <<>>
  /\ logFile = <<>>
  /\ console = <<>>
  /\ logWritable \in BOOLEAN
  /\ opts = NoOpts
  /\ env = Undef
  /\ configFile \in SaveFiles
  /\ cfgWritable \in BOOLEAN
  /\ outWritable = TRUE
  /\ written = <<>>
  /\ cli = NoCli
  /\ tool = <<>>
  /\ NoRoutes
  /\ writers = [ w \in Writers |-> IdleWriter ]

\* saveConfig(data) in process w up to the end of loadConfig: the file is
\* read. When the read fails and logging that throws, the catch block of
\* saveConfig logs in turn and throws out of saveConfig.
SaveRead(w, data) ==
  /\ writers[w].pc = "idle"
  /\ LET out0 == [ console |-> console, logFile |-> logFile, threw |-> FALSE ]
         current == loadConfig(out0, configFile, logWritable)
         out == IF current.out.threw
                  THEN CatchAndLog(current.out, << "config save failed" >>,
                                   logWritable)
                  ELSE current.out
     IN /\ writers' = [ writers EXCEPT ![w] =
                          [ @ EXCEPT !.pc = IF current.out.threw THEN "done"
                                            ELSE "read",
                                     !.data = data,
                                     !.current = current.data,
                                     !.readFrom = configFile ] ]
        /\ console' = out.console
        /\ logFile' = out.logFile
  /\ UNCHANGED << routeVars, extractVars, calls, inflight, logWritable, opts, env,
                  configFile, cfgWritable, outWritable, written, cli, toolVars >>

\* saveConfig in process w from the merge on: the merged data is written,
\* or the failure of the write is logged.
SaveWrite(w) ==
  /\ writers[w].pc = "read"
  /\ LET out0 == [ console |-> console, logFile |-> logFile, threw |-> FALSE ]
         updated == MergeConfig(writers[w].current, writers[w].data)
         file == [ exists |-> TRUE, parses |-> TRUE, data |-> updated ]
         out == IF cfgWritable THEN out0
                ELSE CatchAndLog(out0, << "config save failed" >>, logWritable)
     IN /\ configFile' = IF cfgWritable THEN file ELSE configFile
        /\ writers' = [ writers EXCEPT ![w] =
                          [ @ EXCEPT !.pc = "done",
                                     !.wrote = cfgWritable,
                                     !.before = configFile,
                                     !.after = IF cfgWritable THEN file
                                               ELSE configFile ] ]
        /\ console' = out.console
        /\ logFile' = out.logFile
  /\ UNCHANGED << routeVars, extractVars, calls, inflight, logWritable, opts, env,
                  cfgWritable, outWritable, written, cli, toolVars >>

NextSave ==
  \/ \E w \in Writers : \E data \in SaveData : SaveRead(w, data)
  \/ \E w \in Writers : SaveWrite(w)

SpecSave == InitSave /\ [][NextSave]_vars

\* The fields a file holds for a reader: none when it is missing or does
\* not parse. A field that is undefined is not in the file.
FieldsOf(file) ==
  IF file.exists /\ file.parses
    THEN { k \in DOMAIN file.data : file.data[k] # Undef }
    ELSE {}

\* C14: saveConfig is a read-merge-write without a lock. What a process
\* writes is what it read with the fields of its data set on top, so a
\* save that nothing interleaves keeps every field of the file that its
\* data does not set, and a field that another process stored between the
\* read and the write is erased.
C14_ReadMergeWrite ==
  \A w \in DOMAIN writers :
    writers[w].wrote =>
      LET d == writers[w]
      IN /\ d.after.exists /\ d.after.parses
         /\ \A k \in DOMAIN d.data : d.after.data[k] = d.data[k]
         /\ \A k \in FieldsOf(d.readFrom) \ DOMAIN d.data :
              /\ k \in DOMAIN d.after.data
              /\ d.after.data[k] = d.readFrom.data[k]
         /\ d.before = d.readFrom =>
              \A k \in FieldsOf(d.before) \ DOMAIN d.data :
                /\ k \in DOMAIN d.after.data
                /\ d.after.data[k] = d.before.data[k]
         /\ \A k \in FieldsOf(d.before) \ (FieldsOf(d.readFrom) \cup DOMAIN d.data) :
              k \notin FieldsOf(d.after)

\* Both processes read the same file, the first wrote its field, and the
\* write of the second erased it: the file lacks the first one's field.
C14_Witness ==
  /\ DOMAIN writers = Writers
  /\ writers[1].wrote
  /\ writers[2].wrote
  /\ writers[1].readFrom = writers[2].readFrom
  /\ writers[2].before = writers[1].after
  /\ configFile = writers[2].after
  /\ \E k \in DOMAIN writers[1].data :
       /\ writers[1].after.data[k] = writers[1].data[k]
       /\ k \notin FieldsOf(configFile)

=============================================================================
